---- MODULE Spec2Model ----
(***************************************************************************)
(* COVID19_EMD_Analysis: the decomposition-and-spectral-analysis engine of *)
(* src/src/emd_analyzer.py (classes EMD, HilbertTransform, EMDAnalyzer).   *)
(*                                                                         *)
(* Numbers.  The program computes on numpy float64 arrays.  The model      *)
(* computes on exact non-negative decimal fixed-point numbers with         *)
(* FracDigits fractional digits, held as little-endian sequences of limbs  *)
(* in base Base (an integer of TLC is 32 bits wide, and ten siftings of a  *)
(* sample scale it by 9^10 / 10^10).  Rounding of float64 is not modelled; *)
(* every comparison of the code (np.std against 1e-10, np.sum against 0)   *)
(* is evaluated exactly.  Frequencies are exact rationals <<num, den>>.    *)
(*                                                                         *)
(* scipy.signal.hilbert is a library routine outside the repository: the   *)
(* analytic signal of a mode is a nondeterministic choice from a bounded   *)
(* set of (amplitude, frequency) columns of the mode's length.             *)
(***************************************************************************)
EXTENDS Integers, Sequences, FiniteSets, TLC

VARIABLES
    pc,                     \* position of the running call
    signal, signal_name, dt,\* arguments of analyze_signal / emd
    window,                 \* argument of wafa_smoothing
    imfs, residue, i,       \* locals of EMD._simple_emd
    frequencies, amplitudes,\* result of compute_instantaneous_frequency
    smoothed_frequencies,   \* result of wafa_smoothing
    statistics,             \* result of _compute_statistics
    results,                \* EMDAnalyzer.results (dict, insertion ordered)
    ret,                    \* outcome of the last finished operation
    calls,                  \* number of analyze_signal calls started
    decomposed,             \* history: signal -> first collection emd returned
    returned,               \* history: name -> bundle last returned by analyze_signal
    replaced,               \* history: a returned bundle took the place of a different one
    threads                 \* the threads calling analyze_signal on one EMDAnalyzer

vars == <<pc, signal, signal_name, dt, window, imfs, residue, i, frequencies,
          amplitudes, smoothed_frequencies, statistics, results, ret, calls,
          decomposed, returned, replaced, threads>>

-----------------------------------------------------------------------------
(* Bounds of the model *)

\* largest sample mantissa of a generated signal
MaxVal == 2
\* largest length of a generated signal
MaxLen == 4
\* fractional decimal digits of the fixed-point numbers
FracDigits == 20
\* analyze_signal calls per behaviour
MaxCalls == 2
\* number of threads that call analyze_signal on one analyzer
MaxThreads == 2

(* Program constants *)

\* for i in range(10): maximum 10 IMFs
MaxImfs == 10
\* if len(residue) < 4: break
MinLength == 4
\* np.std(...) < 1e-10, np.std(...) > 1e-10
EpsExp == 10
\* wafa_smoothing(..., window: int = 30)
DefaultWindow == 30

-----------------------------------------------------------------------------
(* Exact natural numbers wider than 32 bits *)

Base == 10^4

Limb(a, k) == IF k <= Len(a) THEN a[k] ELSE 0

Max(m, n) == IF m > n THEN m ELSE n

\* a without its leading zero limbs
BigNorm(a) ==
    IF \A k \in 1..Len(a) : a[k] = 0 THEN <<>>
    ELSE SubSeq(a, 1, CHOOSE k \in 1..Len(a) :
                         a[k] # 0 /\ \A m \in (k + 1)..Len(a) : a[m] = 0)

\* a * Base^s
Shift(a, s) == IF a = <<>> THEN <<>> ELSE [k \in 1..s |-> 0] \o a

\* a natural number of at most 32 bits
BigFromNat(n) == BigNorm(<<n % Base, (n \div Base) % Base, n \div (Base * Base)>>)

\* a + b, limb by limb: limb k hands a carry on when its sum overflows, or
\* is Base - 1 and takes a carry itself
BigAdd(a, b) ==
    LET n == Max(Len(a), Len(b))
        s(k) == Limb(a, k) + Limb(b, k)
        carry(k) == \E j \in 1..k :
                        s(j) >= Base /\ \A m \in (j + 1)..k : s(m) = Base - 1
    IN  BigNorm([k \in 1..(n + 1) |->
                    (s(k) + (IF carry(k - 1) THEN 1 ELSE 0)) % Base])

\* -1, 0, 1 as a < b, a = b, a > b
BigCmp(a, b) ==
    LET n == Max(Len(a), Len(b))
    IN  IF \A k \in 1..n : Limb(a, k) = Limb(b, k) THEN 0
        ELSE LET top == CHOOSE k \in 1..n :
                            /\ Limb(a, k) # Limb(b, k)
                            /\ \A m \in (k + 1)..n : Limb(a, m) = Limb(b, m)
             IN  IF Limb(a, top) < Limb(b, top) THEN -1 ELSE 1

\* a - b for a >= b (the only case the modelled signals produce); 0 otherwise
BigSub(a, b) ==
    LET borrow(k) == \E j \in 1..k :
                        /\ Limb(a, j) < Limb(b, j)
                        /\ \A m \in (j + 1)..k : Limb(a, m) = Limb(b, m)
    IN  IF BigCmp(a, b) <= 0 THEN <<>>
        ELSE BigNorm([k \in 1..Len(a) |->
                        (Limb(a, k) - Limb(b, k)
                            - (IF borrow(k - 1) THEN 1 ELSE 0) + Base) % Base])

\* a * m for 0 <= m <= Base
BigMulSmall(a, m) ==
    BigAdd([k \in 1..Len(a) |-> (a[k] * m) % Base],
           <<0>> \o [k \in 1..Len(a) |-> (a[k] * m) \div Base])

RECURSIVE BigMulRange(_, _, _, _)
\* a times the limbs lo..hi of b, halving the range
BigMulRange(a, b, lo, hi) ==
    IF lo > hi THEN <<>>
    ELSE IF lo = hi THEN Shift(BigMulSmall(a, b[lo]), lo - 1)
    ELSE LET mid == (lo + hi) \div 2
         IN  BigAdd(BigMulRange(a, b, lo, mid), BigMulRange(a, b, mid + 1, hi))

BigMul(a, b) == BigMulRange(a, b, 1, Len(b))

\* a / d rounded down, for d a divisor of Base: the remainder handed down
\* to limb k is that of limb k + 1 alone
BigDivSmall(a, d) ==
    BigNorm([k \in 1..Len(a) |-> ((Limb(a, k + 1) % d) * Base + a[k]) \div d])

\* 10^k
BigPow10(k) == Shift(<<10^(k % 4)>>, k \div 4)

\* the sample m * 10^-e as a fixed-point number
Fixed(m, e) == BigMul(BigFromNat(m), BigPow10(FracDigits - e))

-----------------------------------------------------------------------------
(* numpy array operations used by EMD *)

\* signal * 0.1
ScaleTenth(x) == [j \in 1..Len(x) |-> BigDivSmall(x[j], 10)]

\* residue - imf
ArrSub(x, y) == [j \in 1..Len(x) |-> BigSub(x[j], y[j])]

ArrAdd(x, y) == [j \in 1..Len(x) |-> BigAdd(x[j], y[j])]

RECURSIVE SumRange(_, _, _)
\* np.sum(x[lo..hi]), halving the range
SumRange(x, lo, hi) ==
    IF lo > hi THEN <<>>
    ELSE IF lo = hi THEN x[lo]
    ELSE LET mid == (lo + hi) \div 2
             left == SumRange(x, lo, mid)
             right == SumRange(x, mid + 1, hi)
         IN  IF left = <<>> THEN right
             ELSE IF right = <<>> THEN left
             ELSE BigAdd(left, right)

RECURSIVE SumSqRange(_, _, _)
\* np.sum(x[lo..hi] ** 2), halving the range
SumSqRange(x, lo, hi) ==
    IF lo > hi THEN <<>>
    ELSE IF lo = hi THEN BigMul(x[lo], x[lo])
    ELSE LET mid == (lo + hi) \div 2
             left == SumSqRange(x, lo, mid)
             right == SumSqRange(x, mid + 1, hi)
         IN  IF left = <<>> THEN right
             ELSE IF right = <<>> THEN left
             ELSE BigAdd(left, right)

\* n^2 * variance of x, in squared fixed-point units: n * sum(x^2) - sum(x)^2
VarTimesNSq(x) ==
    LET sum == SumRange(x, 1, Len(x))
        sumsq == SumSqRange(x, 1, Len(x))
    IN  IF sumsq = <<>> THEN <<>>
        ELSE IF sum = <<>> THEN BigMulSmall(sumsq, Len(x))
        ELSE BigSub(BigMulSmall(sumsq, Len(x)), BigMul(sum, sum))

\* n^2 * (1e-10)^2 in squared fixed-point units
EpsSqTimesNSq(n) == BigMulSmall(BigPow10(2 * (FracDigits - EpsExp)), n * n)

\* np.std(x) compared with 1e-10: -1, 0, 1 (np.std of an empty array is nan,
\* for which both comparisons of the code are false: 0 stands for it)
StdCmpEps(x) ==
    IF Len(x) = 0 THEN 0
    ELSE LET var == VarTimesNSq(x)
         IN  IF var = <<>> THEN -1 ELSE BigCmp(var, EpsSqTimesNSq(Len(x)))

-----------------------------------------------------------------------------
(* class EMD *)

\* Python's None
None == [none |-> TRUE]

\* EMD._sift: return signal * 0.1  (placeholder implementation)
sift(x) == ScaleTenth(x)

\* imfs = []; residue = signal.copy()
StartResidueFromCache ==
    IF results # <<>> THEN results[1].value.imfs[1] ELSE signal
StartResidue == signal

LoopContinuesOffByOne ==
    /\ i <= MaxImfs
    /\ Len(residue) >= MinLength
    /\ StdCmpEps(sift(residue)) >= 0

\* the for loop of _simple_emd goes on: no break at its head or on the imf
LoopContinues ==
    /\ i < MaxImfs
    /\ Len(residue) >= MinLength
    /\ StdCmpEps(sift(residue)) >= 0

\* EMD.emd when PyEMD cannot be imported: the call of _simple_emd
EmdFallback ==
    /\ pc = "emd"
    /\ pc' = "sift"
    /\ imfs' = <<>>
    /\ residue' = StartResidue
    /\ i' = 0
    /\ UNCHANGED <<signal, signal_name, dt, window, frequencies, amplitudes,
                   smoothed_frequencies, statistics, results, ret, calls,
                   decomposed, returned, replaced, threads>>

\* the iteration with residue bound to the caller's array (no copy at line
\* 58) and the subtraction done in place
SiftIterInPlace ==
    /\ pc = "sift"
    /\ LoopContinues
    /\ LET imf == sift(residue)
       IN  /\ imfs' = Append(imfs, imf)
           /\ residue' = ArrSub(residue, imf)
           /\ signal' = ArrSub(residue, imf)
    /\ i' = i + 1
    /\ UNCHANGED <<pc, signal_name, dt, window, frequencies, amplitudes,
                   smoothed_frequencies, statistics, results, ret, calls,
                   decomposed, returned, replaced, threads>>

\* one iteration of the for loop that accepts an IMF
SiftIter ==
    /\ pc = "sift"
    /\ LoopContinues
    /\ LET imf == sift(residue)
       IN  /\ imfs' = Append(imfs, imf)
           /\ residue' = ArrSub(residue, imf)
    /\ i' = i + 1
    /\ UNCHANGED <<pc, signal, signal_name, dt, window, frequencies, amplitudes,
                   smoothed_frequencies, statistics, results, ret, calls,
                   decomposed, returned, replaced, threads>>

\* the residue tested against the threshold at the scale of an imf
ResidueKeptAtImfScale == StdCmpEps(sift(residue)) > 0
\* the test of line 72: np.std(residue) > 1e-10
ResidueKept == StdCmpEps(residue) > 0

\* the loop ends (range exhausted or break); the residue is appended when
\* np.std(residue) > 1e-10; return np.array(imfs)
SiftExit ==
    /\ pc = "sift"
    /\ ~LoopContinues
    /\ imfs' = IF ResidueKept THEN Append(imfs, residue) ELSE imfs
    /\ pc' = "emd_done"
    /\ decomposed' = IF signal \in DOMAIN decomposed
                     THEN decomposed
                     ELSE [s \in DOMAIN decomposed \cup {signal} |->
                             IF s = signal THEN imfs' ELSE decomposed[s]]
    /\ UNCHANGED <<signal, signal_name, dt, window, residue, i, frequencies,
                   amplitudes, smoothed_frequencies, statistics, results, ret,
                   calls, returned, replaced, threads>>

-----------------------------------------------------------------------------
(* Exact rationals <<num, den>> with den > 0, in lowest terms *)

Abs(a) == IF a < 0 THEN -a ELSE a

RECURSIVE Gcd(_, _)
Gcd(a, b) == IF b = 0 THEN a ELSE Gcd(b, a % b)

Rat(p, q) ==
    LET g == Gcd(Abs(p), Abs(q))
        sgn == IF q < 0 THEN -1 ELSE 1
    IN  <<(sgn * p) \div g, (sgn * q) \div g>>

RatZero == <<0, 1>>

RatAdd(x, y) == Rat(x[1] * y[2] + y[1] * x[2], x[2] * y[2])

RatMulInt(x, k) == Rat(x[1] * k, x[2])

\* x / k for an integer k > 0
RatDivInt(x, k) == Rat(x[1], x[2] * k)

\* 1.0 / x for x # 0
RatInv(x) == Rat(x[2], x[1])

-----------------------------------------------------------------------------
(* numpy arrays of one and two dimensions: a matrix is the sequence of its  *)
(* rows; np.array([]) is the empty sequence, whose shape is (0,)            *)

Shape(m) == IF m = <<>> THEN <<0>> ELSE <<Len(m), Len(m[1])>>

\* np.array(rows).T
Transpose(m) ==
    IF m = <<>> THEN <<>>
    ELSE [r \in 1..Len(m[1]) |-> [c \in 1..Len(m) |-> m[c][r]]]

\* m[:, c]
Column(m, c) == [r \in 1..Len(m) |-> m[r][c]]

RECURSIVE IntSumFrom(_, _)
IntSumFrom(x, k) == IF k > Len(x) THEN 0 ELSE x[k] + IntSumFrom(x, k + 1)

\* np.sum of an integer array
IntSum(x) == IntSumFrom(x, 1)

RECURSIVE WeightedSumFrom(_, _, _)
WeightedSumFrom(w, f, k) ==
    IF k > Len(w) THEN RatZero
    ELSE RatAdd(RatMulInt(f[k], w[k]), WeightedSumFrom(w, f, k + 1))

\* np.sum(w * f) for integer weights w and rational f
WeightedSum(w, f) == WeightedSumFrom(w, f, 1)

-----------------------------------------------------------------------------
(* class HilbertTransform *)

\* largest instantaneous amplitude of a drawn analytic signal
MaxAmp == 2
\* largest phase step (in turns, np.diff(phase) / (2 * math.pi)) drawn
MaxFreq == 1

\* hilbert(x): the analytic signals a call may see, each given by its
\* amplitude np.abs(.) (one value per sample) and the steps of its unwrapped
\* phase in turns (one value per pair of neighbouring samples).  One analytic
\* signal is drawn per call of compute_instantaneous_frequency and stands for
\* every mode: the modes of _simple_emd are positive multiples of one another.
AnalyticSignals(n) ==
    { [amplitude |-> [j \in 1..n |-> a], dphase |-> [j \in 1..(n - 1) |-> d]] :
        a \in 1..MaxAmp, d \in (-MaxFreq)..MaxFreq }

\* the modes the loop of compute_instantaneous_frequency visits:
\* for i in range(n_imfs - 1)  (exclude residue term)
HilbertRangeWrong(n_imfs) == 1..n_imfs
HilbertRange(n_imfs) == 1..(n_imfs - 1)

\* freq = (1/dt) * np.diff(phase) / (2 * math.pi); freq = np.append(freq, freq[-1])
InstFreq(h, d) ==
    LET f == [j \in 1..Len(h.dphase) |-> Rat(h.dphase[j], d)]
    IN  Append(f, f[Len(f)])

\* the length reconciliation of amplitude and freq (lines 119-122)
ReconciledAmp(amp, freq) ==
    IF Len(amp) > Len(freq) THEN SubSeq(amp, 1, Len(freq)) ELSE amp

ReconciledFreq(amp, freq) ==
    IF Len(freq) > Len(amp) THEN SubSeq(freq, 1, Len(amp)) ELSE freq

\* compute_instantaneous_frequency raises: 1/dt with dt = 0 inside the loop
HilbertRaises(c, d) == HilbertRange(Len(c)) # {} /\ d = 0

\* np.array(frequencies).T
FrequencyMatrix(c, d, h) ==
    Transpose([m \in HilbertRange(Len(c)) |->
                  ReconciledFreq(h.amplitude, InstFreq(h, d))])

\* np.array(amplitudes).T
AmplitudeMatrix(c, d, h) ==
    Transpose([m \in HilbertRange(Len(c)) |->
                  ReconciledAmp(h.amplitude, InstFreq(h, d))])

\* the sample indices (0-based) wafa_smoothing rewrites:
\* range(window//2, n_samples - window//2)
SmoothedRange(n, w) == (w \div 2)..(n - (w \div 2) - 1)

\* the statement of line 157 without the test of line 156: numpy divides
\* 0.0 by 0.0 into nan, written <<0, 0>>
SmoothedSampleUnguarded(f, a, w, j, c) ==
    LET lo == j - (w \div 2) + 1
        hi == j + (w \div 2) + 1
        weights == SubSeq(Column(a, c), lo, hi)
        freqs == SubSeq(Column(f, c), lo, hi)
    IN  IF IntSum(weights) > 0
        THEN RatDivInt(WeightedSum(weights, freqs), IntSum(weights))
        ELSE <<0, 0>>

\* the weighted sum divided by the number of samples of the window instead
\* of by the sum of the weights
SmoothedSampleByCount(f, a, w, j, c) ==
    LET lo == j - (w \div 2) + 1
        hi == j + (w \div 2) + 1
        weights == SubSeq(Column(a, c), lo, hi)
        freqs == SubSeq(Column(f, c), lo, hi)
    IN  IF IntSum(weights) > 0
        THEN RatDivInt(WeightedSum(weights, freqs), Len(weights))
        ELSE f[j + 1][c]

\* smoothed_freq[j, i] for the 0-based sample j of (1-based) mode c
SmoothedSample(f, a, w, j, c) ==
    LET lo == j - (w \div 2) + 1
        hi == j + (w \div 2) + 1
        weights == SubSeq(Column(a, c), lo, hi)
        freqs == SubSeq(Column(f, c), lo, hi)
    IN  IF IntSum(weights) > 0
        THEN RatDivInt(WeightedSum(weights, freqs), IntSum(weights))
        ELSE f[j + 1][c]

\* every sample smoothed, the window shrunk to the array near the edges
wafa_smoothingClipped(f, a, w) ==
    [r \in 1..Len(f) |->
        [c \in 1..Len(f[r]) |->
            LET lo == Max(1, r - (w \div 2))
                hi == IF r + (w \div 2) > Len(f) THEN Len(f) ELSE r + (w \div 2)
                weights == SubSeq(Column(a, c), lo, hi)
                freqs == SubSeq(Column(f, c), lo, hi)
            IN  IF IntSum(weights) > 0
                THEN RatDivInt(WeightedSum(weights, freqs), IntSum(weights))
                ELSE f[r][c]]]

RECURSIVE SmoothInPlaceUpTo(_, _, _, _)
\* the samples up to the 0-based j smoothed one after the other in the
\* matrix itself, each from the values the matrix holds by then
SmoothInPlaceUpTo(f, a, w, j) ==
    IF j < w \div 2 THEN f
    ELSE LET prev == SmoothInPlaceUpTo(f, a, w, j - 1)
         IN  [prev EXCEPT ![j + 1] =
                 [c \in 1..Len(prev[j + 1]) |-> SmoothedSample(prev, a, w, j, c)]]

\* wafa_smoothing without the copy of line 148
wafa_smoothingInPlace(f, a, w) ==
    SmoothInPlaceUpTo(f, a, w, Len(f) - (w \div 2) - 1)

\* wafa_smoothing for a two-dimensional frequencies
wafa_smoothing(f, a, w) ==
    [r \in 1..Len(f) |->
        [c \in 1..Len(f[r]) |->
            IF (r - 1) \in SmoothedRange(Len(f), w)
            THEN SmoothedSample(f, a, w, r - 1, c)
            ELSE f[r][c]]]

-----------------------------------------------------------------------------
(* class EMDAnalyzer *)

\* mean_freq of one mode: amplitude-weighted mean, 0 when np.sum(amp) is 0
MeanFreq(freq, amp) ==
    IF IntSum(amp) > 0 THEN RatDivInt(WeightedSum(amp, freq), IntSum(amp))
    ELSE RatZero

\* mean period of one mode: 1.0 / mean_freq if mean_freq > 0 else 0
MeanPeriod(mean_freq) ==
    IF mean_freq[1] > 0 THEN RatInv(mean_freq) ELSE RatZero

\* np.mean(amp)
MeanAmp(amp) == Rat(IntSum(amp), Len(amp))

\* _compute_statistics for a two-dimensional frequencies
compute_statistics(f, a) ==
    LET n_imfs == Shape(f)[2]
    IN  [mean_frequencies |->
            [c \in 1..n_imfs |-> MeanFreq(Column(f, c), Column(a, c))],
         mean_periods |->
            [c \in 1..n_imfs |-> MeanPeriod(MeanFreq(Column(f, c), Column(a, c)))],
         mean_amplitudes |->
            [c \in 1..n_imfs |-> MeanAmp(Column(a, c))]]

\* the dict self.results: a sequence of items in insertion order
DictHas(d, k) == \E x \in 1..Len(d) : d[x].key = k

DictIndex(d, k) == CHOOSE x \in 1..Len(d) : d[x].key = k

\* d.get(k)
DictGet(d, k) == IF DictHas(d, k) THEN d[DictIndex(d, k)].value ELSE None

\* d[k] = v
DictSetAlone(d, k, v) == <<[key |-> k, value |-> v]>>
DictSetAppends(d, k, v) == Append(d, [key |-> k, value |-> v])
DictSet(d, k, v) ==
    IF DictHas(d, k)
    THEN [d EXCEPT ![DictIndex(d, k)] = [key |-> k, value |-> v]]
    ELSE Append(d, [key |-> k, value |-> v])

\* list(d.keys())
DictKeys(d) == [x \in 1..Len(d) |-> d[x].key]

\* the result dict analyze_signal builds (lines 204-213)
Bundle ==
    [signal_name |-> signal_name,
     original_signal |-> signal,
     imfs |-> imfs,
     n_imfs |-> Len(imfs),
     frequencies |-> smoothed_frequencies,
     amplitudes |-> amplitudes,
     statistics |-> statistics,
     dt |-> dt]

Returned(op, arg, v) == [op |-> op, arg |-> arg, status |-> "return", val |-> v]

Raised(op, arg, e) == [op |-> op, arg |-> arg, status |-> "raise", val |-> e]

-----------------------------------------------------------------------------
(* Input signals *)

\* the sample counts 10^-e the generated signals are scaled by
ScaleExps == {0, EpsExp - 1, EpsExp}

GridSignals ==
    UNION { UNION { { [j \in 1..n |-> Fixed(s[j], e)] : s \in [1..n -> 0..MaxVal] }
                    : n \in (MinLength - 1)..MaxLen }
            : e \in ScaleExps }

\* constant signal of value 42, length 50
Const42 == [j \in 1..50 |-> Fixed(42, 0)]

\* all zeros except one sample = 1000, length 100
Spike1000 == [j \in 1..100 |-> IF j = 50 THEN Fixed(1000, 0) ELSE <<>>]

\* the signals handed to analyze_signal: a short one, constants, a ramp, a
\* spike and two of tiny amplitude
AnalyzerSignals ==
    { <<Fixed(0, 0), Fixed(1, 0), Fixed(0, 0)>>,
      <<Fixed(42, 0), Fixed(42, 0), Fixed(42, 0), Fixed(42, 0)>>,
      <<Fixed(0, 0), Fixed(1, 0), Fixed(2, 0), Fixed(3, 0)>>,
      <<Fixed(0, 0), Fixed(0, 0), Fixed(1000, 0), Fixed(0, 0)>>,
      <<Fixed(0, 0), Fixed(0, 0), Fixed(0, 0), Fixed(3, EpsExp)>>,
      <<Fixed(0, 0), Fixed(0, 0), Fixed(0, 0), Fixed(3, EpsExp - 1)>> }

EmdSignals == GridSignals \cup AnalyzerSignals \cup {Const42, Spike1000}

\* no operation has finished since the running call began
NoOutcome == [op |-> "none", arg |-> "", status |-> "none", val |-> None]

Threads == 1..MaxThreads

\* a thread that has not called analyze_signal
IdleThread == [pc |-> "idle", result |-> None, order |-> 0]

InitLocals ==
    /\ threads = [t \in Threads |-> IdleThread]
    /\ imfs = <<>>
    /\ residue = <<>>
    /\ i = 0
    /\ frequencies = <<>>
    /\ amplitudes = <<>>
    /\ smoothed_frequencies = <<>>
    /\ statistics = None
    /\ results = <<>>
    /\ ret = NoOutcome
    /\ decomposed = <<>>
    /\ returned = <<>>
    /\ replaced = FALSE

\* a call EMD.emd(signal) on a fresh EMD()
InitEmd ==
    /\ pc = "emd"
    /\ signal \in EmdSignals
    /\ signal_name = "signal"
    /\ dt = 1
    /\ window = DefaultWindow
    /\ calls = 0
    /\ InitLocals

NextEmd == EmdFallback \/ SiftIter \/ SiftExit

SpecEmd == InitEmd /\ [][NextEmd]_vars

-----------------------------------------------------------------------------
(* Operations of EMDAnalyzer *)

Names == {"signal", "tokyo_covid_infections"}

Dts == {0, 1, 2}

\* analyze_signal is left (return or raise): its locals are gone
LocalsDropped ==
    /\ imfs' = <<>>
    /\ residue' = <<>>
    /\ i' = 0
    /\ frequencies' = <<>>
    /\ amplitudes' = <<>>
    /\ smoothed_frequencies' = <<>>
    /\ statistics' = None

\* the call entering an unfinished bundle under its name before it computes
AnalyzeSignalReservesEntry ==
    /\ pc = "idle"
    /\ calls < MaxCalls
    /\ calls' = calls + 1
    /\ signal' \in AnalyzerSignals
    /\ signal_name' \in Names
    /\ dt' \in Dts
    /\ window' = DefaultWindow
    /\ pc' = "emd"
    /\ ret' = NoOutcome
    /\ results' = DictSet(results, signal_name',
                          [signal_name |-> signal_name', original_signal |-> signal'])
    /\ UNCHANGED <<imfs, residue, i, frequencies, amplitudes,
                   smoothed_frequencies, statistics, decomposed,
                   returned, replaced, threads>>

\* analyze_signal(signal, signal_name, dt) is called: imfs = self.emd(signal)
AnalyzeSignal ==
    /\ pc = "idle"
    /\ calls < MaxCalls
    /\ calls' = calls + 1
    /\ signal' \in AnalyzerSignals
    /\ signal_name' \in Names
    /\ dt' \in Dts
    /\ window' = DefaultWindow
    /\ pc' = "emd"
    /\ ret' = NoOutcome
    /\ UNCHANGED <<imfs, residue, i, frequencies, amplitudes,
                   smoothed_frequencies, statistics, results, decomposed,
                   returned, replaced, threads>>

\* frequencies, amplitudes = self.hilbert.compute_instantaneous_frequency(imfs, dt)
ComputeInstantaneousFrequency ==
    /\ pc = "emd_done"
    /\ IF HilbertRaises(imfs, dt)
       THEN /\ pc' = "idle"
            /\ ret' = Raised("analyze_signal", signal_name, "ZeroDivisionError")
            /\ LocalsDropped
       ELSE /\ \E h \in AnalyticSignals(Len(signal)) :
                  /\ frequencies' = FrequencyMatrix(imfs, dt, h)
                  /\ amplitudes' = AmplitudeMatrix(imfs, dt, h)
            /\ pc' = "wafa"
            /\ UNCHANGED <<ret, imfs, residue, i, smoothed_frequencies, statistics>>
    /\ UNCHANGED <<signal, signal_name, dt, window, results, calls,
                   decomposed, returned, replaced, threads>>

\* smoothed_frequencies = self.hilbert.wafa_smoothing(frequencies, amplitudes);
\* n_samples, n_imfs = frequencies.shape raises ValueError on a shape (0,)
WafaSmoothing ==
    /\ pc = "wafa"
    /\ IF Len(Shape(frequencies)) # 2
       THEN /\ pc' = "idle"
            /\ ret' = Raised("analyze_signal", signal_name, "ValueError")
            /\ LocalsDropped
       ELSE /\ smoothed_frequencies' = wafa_smoothing(frequencies, amplitudes, window)
            /\ pc' = "stats"
            /\ UNCHANGED <<ret, imfs, residue, i, frequencies, amplitudes, statistics>>
    /\ UNCHANGED <<signal, signal_name, dt, window, results, calls,
                   decomposed, returned, replaced, threads>>

\* statistics = self._compute_statistics(imfs, smoothed_frequencies, amplitudes)
ComputeStatistics ==
    /\ pc = "stats"
    /\ statistics' = compute_statistics(smoothed_frequencies, amplitudes)
    /\ pc' = "store"
    /\ UNCHANGED <<signal, signal_name, dt, window, imfs, residue, i,
                   frequencies, amplitudes, smoothed_frequencies, results, ret,
                   calls, decomposed, returned, replaced, threads>>

\* self.results[signal_name] = result; return result
StoreResult ==
    /\ pc = "store"
    /\ results' = DictSet(results, signal_name, Bundle)
    /\ ret' = Returned("analyze_signal", signal_name, Bundle)
    /\ returned' = [n \in DOMAIN returned \cup {signal_name} |->
                       IF n = signal_name THEN ret'.val ELSE returned[n]]
    /\ replaced' = (replaced \/ (signal_name \in DOMAIN returned
                                   /\ returned[signal_name] # Bundle))
    /\ pc' = "idle"
    /\ LocalsDropped
    /\ UNCHANGED <<signal, signal_name, dt, window, calls, decomposed, threads>>

\* get_analysis_results(signal_name): return self.results.get(signal_name)
GetAnalysisResults ==
    /\ pc = "idle"
    /\ \E n \in Names :
          ret' = Returned("get_analysis_results", n, DictGet(results, n))
    /\ UNCHANGED <<pc, signal, signal_name, dt, window, imfs, residue, i,
                   frequencies, amplitudes, smoothed_frequencies, statistics,
                   results, calls, decomposed, returned, replaced, threads>>

\* list_analyzed_signals(): return list(self.results.keys())
ListAnalyzedSignals ==
    /\ pc = "idle"
    /\ ret' = Returned("list_analyzed_signals", "", DictKeys(results))
    /\ UNCHANGED <<pc, signal, signal_name, dt, window, imfs, residue, i,
                   frequencies, amplitudes, smoothed_frequencies, statistics,
                   results, calls, decomposed, returned, replaced, threads>>

\* EMDAnalyzer(): self.results = {}
Init ==
    /\ pc = "idle"
    /\ signal = <<>>
    /\ signal_name = "signal"
    /\ dt = 1
    /\ window = DefaultWindow
    /\ calls = 0
    /\ InitLocals

Next ==
    \/ AnalyzeSignal
    \/ EmdFallback
    \/ SiftIter
    \/ SiftExit
    \/ ComputeInstantaneousFrequency
    \/ WafaSmoothing
    \/ ComputeStatistics
    \/ StoreResult
    \/ GetAnalysisResults
    \/ ListAnalyzedSignals

Spec == Init /\ [][Next]_vars

-----------------------------------------------------------------------------
(* The spectral functions on their own: wafa_smoothing followed by          *)
(* _compute_statistics, on frequency and amplitude matrices drawn from      *)
(* bounded sets                                                             *)

\* largest number of samples, of modes and of cells of a drawn matrix
MaxRows == 4
MaxCols == 2
MaxCells == 4

MatrixShapes ==
    { sh \in (1..MaxRows) \X (1..MaxCols) : sh[1] * sh[2] <= MaxCells }

Matrices(sh, cells) == [1..sh[1] -> [1..sh[2] -> cells]]

FreqCells == { Rat(f, 1) : f \in (-MaxFreq)..MaxFreq }

AmpCells == 0..MaxAmp

Windows == {2, 3, DefaultWindow}

InitSpectral ==
    /\ pc = "wafa"
    /\ \E sh \in MatrixShapes :
          /\ frequencies \in Matrices(sh, FreqCells)
          /\ amplitudes \in Matrices(sh, AmpCells)
    /\ window \in Windows
    /\ signal = <<>>
    /\ signal_name = "signal"
    /\ dt = 1
    /\ calls = 0
    /\ imfs = <<>>
    /\ residue = <<>>
    /\ i = 0
    /\ smoothed_frequencies = <<>>
    /\ statistics = None
    /\ results = <<>>
    /\ ret = NoOutcome
    /\ decomposed = <<>>
    /\ returned = <<>>
    /\ replaced = FALSE
    /\ threads = [t \in Threads |-> IdleThread]

NextSpectral == WafaSmoothing \/ ComputeStatistics

SpecSpectral == InitSpectral /\ [][NextSpectral]_vars

-----------------------------------------------------------------------------
(* Several threads calling analyze_signal on one EMDAnalyzer.  A call works *)
(* on its own locals up to the result dict of lines 204-213; its one        *)
(* statement on shared state is self.results[signal_name] = result (line    *)
(* 215), a single dict store: the source takes no lock, the interpreter     *)
(* executes the store as one step.                                          *)

RECURSIVE SimpleEmdFrom(_, _, _)
\* the loop of _simple_emd from iteration k on, and its return value
SimpleEmdFrom(ms, r, k) ==
    IF k < MaxImfs /\ Len(r) >= MinLength /\ StdCmpEps(sift(r)) >= 0
    THEN SimpleEmdFrom(Append(ms, sift(r)), ArrSub(r, sift(r)), k + 1)
    ELSE IF StdCmpEps(r) > 0 THEN Append(ms, r) ELSE ms

\* EMD._simple_emd(x)
simple_emd(x) == SimpleEmdFrom(<<>>, x, 0)

\* analyze_signal(x, name, d) up to line 213, for the analytic signal h the
\* call draws: the error it raises or the result dict it has built
AnalysisOutcome(x, name, d, h) ==
    LET c == simple_emd(x)
        f == FrequencyMatrix(c, d, h)
        a == AmplitudeMatrix(c, d, h)
        sm == wafa_smoothing(f, a, DefaultWindow)
    IN  IF HilbertRaises(c, d)
        THEN Raised("analyze_signal", name, "ZeroDivisionError")
        ELSE IF Len(Shape(f)) # 2
        THEN Raised("analyze_signal", name, "ValueError")
        ELSE Returned("analyze_signal", name,
                      [signal_name |-> name,
                       original_signal |-> x,
                       imfs |-> c,
                       n_imfs |-> Len(c),
                       frequencies |-> sm,
                       amplitudes |-> a,
                       statistics |-> compute_statistics(sm, a),
                       dt |-> d])

\* the signals the threads analyze: a ramp and a constant
ThreadSignals ==
    { <<Fixed(0, 0), Fixed(1, 0), Fixed(2, 0), Fixed(3, 0)>>,
      <<Fixed(42, 0), Fixed(42, 0), Fixed(42, 0), Fixed(42, 0)>> }

ThreadOutcomes ==
    UNION { { AnalysisOutcome(x, n, d, h) :
                n \in Names, d \in Dts, h \in AnalyticSignals(Len(x)) }
            : x \in ThreadSignals }

\* thread t calls analyze_signal and runs it up to line 213
ThreadAnalyze(t) ==
    /\ threads[t].pc = "idle"
    /\ \E o \in ThreadOutcomes :
          threads' = [threads EXCEPT ![t] =
                         IF o.status = "return"
                         THEN [pc |-> "store", result |-> o.val, order |-> 0]
                         ELSE [pc |-> "raised", result |-> None, order |-> 0]]
    /\ calls' = calls + 1
    /\ UNCHANGED <<pc, signal, signal_name, dt, window, imfs, residue, i,
                   frequencies, amplitudes, smoothed_frequencies, statistics,
                   results, ret, decomposed, returned, replaced>>

\* a store that enters the name first and leaves the fields for later
ThreadStoreUnfilled(t) ==
    /\ threads[t].pc = "store"
    /\ results' = DictSet(results, threads[t].result.signal_name,
                          [signal_name |-> threads[t].result.signal_name])
    /\ threads' = [threads EXCEPT ![t].pc = "done",
                                  ![t].order = 1 + Cardinality(
                                      { u \in Threads : threads[u].pc = "done" })]
    /\ UNCHANGED <<pc, signal, signal_name, dt, window, imfs, residue, i,
                   frequencies, amplitudes, smoothed_frequencies, statistics,
                   ret, calls, decomposed, returned, replaced>>

\* thread t executes self.results[signal_name] = result and returns result;
\* order numbers the stores in the order they happen
ThreadStore(t) ==
    /\ threads[t].pc = "store"
    /\ results' = DictSet(results, threads[t].result.signal_name, threads[t].result)
    /\ threads' = [threads EXCEPT ![t].pc = "done",
                                  ![t].order = 1 + Cardinality(
                                      { u \in Threads : threads[u].pc = "done" })]
    /\ UNCHANGED <<pc, signal, signal_name, dt, window, imfs, residue, i,
                   frequencies, amplitudes, smoothed_frequencies, statistics,
                   ret, calls, decomposed, returned, replaced>>

NextConcurrent ==
    \/ \E t \in Threads : ThreadAnalyze(t)
    \/ \E t \in Threads : ThreadStore(t)
    \/ GetAnalysisResults
    \/ ListAnalyzedSignals

SpecConcurrent == Init /\ [][NextConcurrent]_vars

-----------------------------------------------------------------------------
(* Properties of the decomposition *)

RECURSIVE SumCollectionRange(_, _, _, _)
SumCollectionRange(c, n, lo, hi) ==
    IF lo > hi THEN [j \in 1..n |-> <<>>]
    ELSE IF lo = hi THEN c[lo]
    ELSE LET mid == (lo + hi) \div 2
         IN  ArrAdd(SumCollectionRange(c, n, lo, mid),
                    SumCollectionRange(c, n, mid + 1, hi))

\* element-wise sum of the elements of a collection of arrays of length n
SumCollection(c, n) == SumCollectionRange(c, n, 1, Len(c))

IsConstant(x) == \A j \in 1..Len(x) : x[j] = x[1]

StrictlyMonotonic(x) ==
    \/ \A j \in 1..(Len(x) - 1) : BigCmp(x[j], x[j + 1]) < 0
    \/ \A j \in 1..(Len(x) - 1) : BigCmp(x[j], x[j + 1]) > 0

\* C1 (as claimed): whenever decompose returns for a signal of at least 4
\* samples, the element-wise sum of the returned collection is the signal.
C1_LosslessReconstruction ==
    (pc = "emd_done" /\ Len(signal) >= MinLength)
        => SumCollection(imfs, Len(signal)) = signal

\* C2 (as claimed): for a constant signal of at least 4 samples decompose
\* returns exactly one element, the residual, equal to the signal.
C2_ConstantGivesResidualOnly ==
    (pc = "emd_done" /\ Len(signal) >= MinLength /\ IsConstant(signal))
        => imfs = <<signal>>

\* C3 (as claimed): for a strictly monotonic signal of at least 4 samples
\* decompose extracts no mode and returns the signal as the residual.
C3_MonotonicGivesResidualOnly ==
    (pc = "emd_done" /\ Len(signal) >= MinLength /\ StrictlyMonotonic(signal))
        => imfs = <<signal>>

\* C4 (as claimed): decompose never returns a collection for a signal of
\* fewer than 4 samples (it fails with InsufficientLength instead).
C4_ShortSignalReturnsNothing ==
    pc = "emd_done" => Len(signal) >= MinLength

\* C10: decompose extracts at most 10 modes, and the returned collection has
\* at most 11 elements.
C10_AtMostTenModes ==
    /\ pc = "sift" => Len(imfs) <= 10
    /\ pc = "emd_done" => Len(imfs) <= 11

\* C10 witness: a decomposition returned the full 10 modes and the residual.
C10_Witness == pc = "emd_done" /\ Len(imfs) = 11 /\ i = 10

\* C15 (as claimed): with the full-featured implementation unavailable (the
\* import of line 44 fails), EMD.emd does not return a collection: it fails
\* instead of handing out the output of the stand-in algorithm.
C15_NoSubstituteOutput == pc # "emd_done"

\* C18: whenever control is at the head of the extraction loop or at its
\* exit (before the residual is appended or dropped), the modes accepted so
\* far plus the current residual add up to the input signal, and the input
\* signal is what it was.
C18_LoopInvariant ==
    [][pc' = "sift" =>
          /\ signal' = signal
          /\ ArrAdd(SumCollection(imfs', Len(signal)), residue') = signal]_vars

\* C18 witness: at least two modes accepted, the residual no longer the
\* signal.
C18_Witness == pc = "sift" /\ i >= 2 /\ Len(imfs) = i /\ residue # signal

-----------------------------------------------------------------------------
(* Properties of the spectral analysis *)

\* C6 (as claimed): in the statistics _compute_statistics returns, for every
\* mode mean_period is 1/mean_frequency when mean_frequency is not 0 (negative
\* included) and 0 when mean_frequency is 0.
C6_PeriodIsReciprocal ==
    pc = "store" =>
        \A c \in 1..Len(statistics.mean_frequencies) :
            LET mf == statistics.mean_frequencies[c]
                mp == statistics.mean_periods[c]
            IN  IF mf[1] # 0 THEN mp = Rat(mf[2], mf[1]) ELSE mp = RatZero

\* the 1-based rows wafa_smoothing has a full centred window for
InteriorRows(n, w) == { r \in 1..n : r - 1 >= w \div 2 /\ r - 1 < n - (w \div 2) }

\* the amplitudes and the original frequencies of the window centred on the
\* 1-based row r of mode c
WindowAmps(a, w, r, c) ==
    [k \in 1..(2 * (w \div 2) + 1) |-> a[r - (w \div 2) + k - 1][c]]

WindowFreqs(f, w, r, c) ==
    [k \in 1..(2 * (w \div 2) + 1) |-> f[r - (w \div 2) + k - 1][c]]

\* C11 (as claimed): wafa_smoothing leaves every sample of index below
\* window//2 or at least N - window//2 unchanged, and no sample at all when
\* N <= window.
C11_EdgesAndShortInputsUnchanged ==
    pc = "stats" =>
        LET n == Len(frequencies)
        IN  /\ \A r \in 1..n :
                  (r - 1 < window \div 2 \/ r - 1 >= n - (window \div 2))
                      => smoothed_frequencies[r] = frequencies[r]
            /\ n <= window => smoothed_frequencies = frequencies

\* C11 (amended): wafa_smoothing leaves every sample of index below
\* window//2 or at least N - window//2 unchanged, and no sample at all when
\* N <= 2 * (window//2), that is N < window, or N = window for an even window.
C11_EdgesUnchanged ==
    pc = "stats" =>
        LET n == Len(frequencies)
        IN  /\ \A r \in 1..n :
                  (r - 1 < window \div 2 \/ r - 1 >= n - (window \div 2))
                      => smoothed_frequencies[r] = frequencies[r]
            /\ n <= 2 * (window \div 2) => smoothed_frequencies = frequencies

\* C11 witness: a smoothing of more samples than the window changed an
\* interior sample and left both edges as they were.
C11_Witness ==
    /\ pc = "stats"
    /\ Len(frequencies) > window
    /\ \E r \in InteriorRows(Len(frequencies), window) :
          smoothed_frequencies[r] # frequencies[r]
    /\ \E r \in 1..Len(frequencies) : frequencies[r] # frequencies[1]

\* C12: when wafa_smoothing runs on a matrix, it raises nothing, and every
\* interior sample whose window has total amplitude zero keeps its original
\* frequency value.
C12_ZeroWindowKeepsValue ==
    [][(pc = "wafa" /\ Len(Shape(frequencies)) = 2) =>
          /\ pc' = "stats"
          /\ ret'.status # "raise"
          /\ \A r \in InteriorRows(Len(frequencies), window) :
                \A c \in 1..Len(frequencies[r]) :
                    IntSum(WindowAmps(amplitudes, window, r, c)) = 0
                        => smoothed_frequencies'[r][c] = frequencies[r][c]]_vars

\* C12 witness: a smoothing met an interior sample whose window has no
\* amplitude while its frequencies differ.
C12_Witness ==
    /\ pc = "stats"
    /\ \E r \in InteriorRows(Len(frequencies), window) :
          \E c \in 1..Len(frequencies[r]) :
              /\ IntSum(WindowAmps(amplitudes, window, r, c)) = 0
              /\ \E k \in 1..(2 * (window \div 2) + 1) :
                     WindowFreqs(frequencies, window, r, c)[k] # frequencies[r][c]
              /\ smoothed_frequencies[r][c] = frequencies[r][c]

\* the amplitude a > 0 all samples of a window share
UniformWindow(a, w, r, c) ==
    /\ a[r][c] > 0
    /\ \A k \in 1..(2 * (w \div 2) + 1) : WindowAmps(a, w, r, c)[k] = a[r][c]

\* C13: an interior sample whose window has one positive amplitude
\* throughout is smoothed to the unweighted mean of the original frequencies
\* of its window.
C13_UniformAmplitudeGivesMean ==
    pc = "stats" =>
        \A r \in InteriorRows(Len(frequencies), window) :
            \A c \in 1..Len(frequencies[r]) :
                UniformWindow(amplitudes, window, r, c) =>
                    LET freqs == WindowFreqs(frequencies, window, r, c)
                        ones == [k \in 1..Len(freqs) |-> 1]
                    IN  smoothed_frequencies[r][c]
                            = RatDivInt(WeightedSum(ones, freqs), Len(freqs))

\* C13 witness: a window of amplitude 2 throughout, whose smoothed centre
\* differs from its original value.
C13_Witness ==
    /\ pc = "stats"
    /\ \E r \in InteriorRows(Len(frequencies), window) :
          \E c \in 1..Len(frequencies[r]) :
              /\ UniformWindow(amplitudes, window, r, c)
              /\ amplitudes[r][c] = 2
              /\ smoothed_frequencies[r][c] # frequencies[r][c]

\* C20: every interior sample of positive window amplitude is smoothed to the
\* amplitude-weighted average of the ORIGINAL frequencies of its window
\* (smoothed value times total weight = weighted sum of the originals), and
\* the call leaves its input matrix as it was.
C20_SmoothedFromOriginals ==
    [][(pc = "wafa" /\ pc' = "stats") =>
          /\ frequencies' = frequencies
          /\ \A r \in InteriorRows(Len(frequencies), window) :
                \A c \in 1..Len(frequencies[r]) :
                    LET weights == WindowAmps(amplitudes, window, r, c)
                        freqs == WindowFreqs(frequencies, window, r, c)
                    IN  IntSum(weights) > 0 =>
                            RatMulInt(smoothed_frequencies'[r][c], IntSum(weights))
                                = WeightedSum(weights, freqs)]_vars

\* C20 witness: two neighbouring interior samples of one mode were both
\* changed, the first carrying weight in the window of the second.
C20_Witness ==
    /\ pc = "stats"
    /\ \E r \in InteriorRows(Len(frequencies), window) :
          \E c \in 1..Len(frequencies[r]) :
              /\ r + 1 \in InteriorRows(Len(frequencies), window)
              /\ amplitudes[r][c] > 0
              /\ smoothed_frequencies[r][c] # frequencies[r][c]
              /\ smoothed_frequencies[r + 1][c] # frequencies[r + 1][c]

-----------------------------------------------------------------------------
(* Properties of the analyzer *)

\* C5 (as claimed): analyze_signal raises only for signals shorter than 4
\* samples (calls with the sampling interval 0 set aside).
C5_OnlyShortSignalsAbort ==
    (ret.op = "analyze_signal" /\ ret.status = "raise" /\ dt # 0)
        => Len(signal) < MinLength

\* C16: a returned collection with at least one extracted mode ends with the
\* residual, after the modes in the order of their extraction, so that the
\* frequency matrix computed from it has a column for every extracted mode.
C16_ResidualLastAfterModes ==
    /\ (pc = "emd_done" /\ i > 0) =>
          /\ Len(imfs) = i + 1
          /\ imfs[i + 1] = residue
          /\ \A k \in 1..i : StdCmpEps(imfs[k]) >= 0
    /\ (pc = "wafa" /\ i > 0) => Shape(frequencies) = <<Len(signal), i>>

\* C16 witness: the loop stopped on a near-zero mode after 3 modes, and the
\* frequency matrix of the 4 elements was computed.
C16_Witness == pc = "wafa" /\ i = 3 /\ Len(imfs) = 4

\* the bundles a caller holds: the one analyze_signal just returned and the
\* ones in the results cache
HeldBundles ==
    { results[x].value : x \in 1..Len(results) }
        \cup (IF ret.op = "analyze_signal" /\ ret.status = "return"
              THEN {ret.val} ELSE {})

\* C7: in every bundle analyze_signal returns, the frequency and amplitude
\* matrices have one row per sample and one column per true mode (elements
\* of the mode collection minus the residual), and each list of the
\* statistics has one entry per true mode.
C7_OneColumnPerTrueMode ==
    \A b \in HeldBundles :
        LET modes == Len(b.imfs) - 1
            samples == Len(b.original_signal)
        IN  /\ Shape(b.frequencies) = <<samples, modes>>
            /\ Shape(b.amplitudes) = <<samples, modes>>
            /\ Len(b.statistics.mean_frequencies) = modes
            /\ Len(b.statistics.mean_periods) = modes
            /\ Len(b.statistics.mean_amplitudes) = modes

\* C7 witness: analyze_signal returned a bundle of 10 modes and a residual,
\* after one of 3 modes and a residual was stored.
C7_Witness ==
    /\ ret.op = "analyze_signal" /\ ret.status = "return"
    /\ Len(ret.val.imfs) = 11
    /\ \E x \in 1..Len(results) : Len(results[x].value.imfs) = 4

\* C8: get_analysis_results(name) returns the bundle the most recent
\* completed analyze_signal call for that name returned, and None for a name
\* never analyzed; list_analyzed_signals returns the analyzed names, each once.
C8_RetrievalIsLatest ==
    /\ ret.op = "get_analysis_results" =>
          ret.val = (IF ret.arg \in DOMAIN returned THEN returned[ret.arg] ELSE None)
    /\ ret.op = "list_analyzed_signals" =>
          /\ \A x \in 1..Len(ret.val) : ret.val[x] \in DOMAIN returned
          /\ \A n \in DOMAIN returned :
                Cardinality({x \in 1..Len(ret.val) : ret.val[x] = n}) = 1

\* C8 witness: a lookup of a name whose bundle replaced a different earlier
\* one, while the other name was never analyzed.
C8_Witness ==
    /\ ret.op = "get_analysis_results"
    /\ replaced
    /\ ret.val # None
    /\ Cardinality(DOMAIN returned) = 1

\* C17: from the call of analyze_signal up to its raising an error, no step
\* changes the results cache: it is left as it was before the call, an
\* earlier bundle under the same name included.
C17_AbortLeavesCache ==
    [][(pc' # "idle" \/ (pc # "idle" /\ ret'.status = "raise"))
          => results' = results]_vars

\* C17 witness: a call raised while the cache holds the bundle an earlier
\* call returned under the same name.
C17_Witness ==
    /\ pc = "idle"
    /\ ret.op = "analyze_signal" /\ ret.status = "raise"
    /\ ret.arg \in DOMAIN returned
    /\ DictGet(results, ret.arg) = returned[ret.arg]

\* C19: a step of analyze_signal for name n leaves the cache entry of every
\* other name as it was and, when it completes, adds no key but n;
\* get_analysis_results and list_analyzed_signals leave the cache as it was.
C19_OnlyOwnEntryChanges ==
    [][/\ \A n \in Names :
             n # signal_name => DictGet(results', n) = DictGet(results, n)
       /\ pc = "store" =>
             { results'[x].key : x \in 1..Len(results') }
                 = { results[x].key : x \in 1..Len(results) } \cup {signal_name}
       /\ (ret'.op \in {"get_analysis_results", "list_analyzed_signals"}
             /\ ret' # ret) => results' = results]_vars

\* C19 witness: a call completed while the cache holds the bundle of the
\* other name.
C19_Witness ==
    /\ pc = "idle"
    /\ ret.op = "analyze_signal" /\ ret.status = "return"
    /\ Len(results) = 2
    /\ results[1].key # ret.arg
    /\ results[1].value = returned[results[1].key]

\* the keys of the result dict of lines 204-213
BundleFields ==
    {"signal_name", "original_signal", "imfs", "n_imfs", "frequencies",
     "amplitudes", "statistics", "dt"}

\* the threads whose store under name n has happened
Writers(n) ==
    { t \in Threads : threads[t].pc = "done" /\ threads[t].result.signal_name = n }

LastWriter(n) ==
    CHOOSE t \in Writers(n) : \A u \in Writers(n) : threads[u].order <= threads[t].order

C9_Deterministic ==
    pc = "emd_done" => (signal \in DOMAIN decomposed /\ imfs = decomposed[signal])

\* C9 witness: the second call decomposed the signal of the first call into
\* modes again, with the first call's bundle in the cache.
C9_Witness ==
    /\ pc = "emd_done"
    /\ calls = 2
    /\ Cardinality(DOMAIN decomposed) = 1
    /\ results # <<>>
    /\ Len(imfs) > 1

====
